---- MODULE Spec2Model ----
(***************************************************************************)
(* Model of the Starpets targeted hunt scraper (src/scraper.py).           *)
(*                                                                         *)
(* Python strings are modelled as sequences of one-character strings, so   *)
(* that strip(), split(), lower(), the substring test and the price regex  *)
(* are computed the way the code computes them.  Prices are floats in the  *)
(* code; the model keeps them exactly, in hundredths (PriceScale), and all *)
(* price texts it draws have at most two fraction digits.                  *)
(***************************************************************************)
EXTENDS Integers, Sequences, FiniteSets

VARIABLES
    config,            \* content of config.json: the "alerts" list (external)
    csv,               \* price_history.csv: [exists, rows]
    run,               \* number of the current run; also the run's timestamp
    rewrites,          \* how often the environment has rewritten config.json
    pc,                \* position of the run inside main()/hunt()
    error,             \* the unhandled exception that ended the run, or "none"
    alerts,            \* main(): alerts = load_alerts()            (line 235)
    huntAlerts,        \* hunt(): alerts = load_alerts()            (line 93)
    idx,               \* hunt(): position of the for loop          (line 139)
    all_found_items,   \* hunt(): all_found_items                   (line 92)
    session,           \* the sync_playwright() session             (line 102)
    browser,           \* the browser launched in that session      (line 103)
    searches,          \* page-driver trace: per search, term and what came back
    filtered_results,  \* main(): filtered_results                  (line 243)
    matching_target,   \* main(): matching_target after the item loop
    sent,              \* messages handed to send_alert             (line 275)
    lines,             \* classifier harness: the card's lines
    cls,               \* classifier harness: the classification of lines
    prev,              \* classifier harness: lines and cls before a reorder
    stage              \* classifier harness: position

vars == <<config, csv, run, rewrites, pc, error, alerts, huntAlerts, idx,
          all_found_items, session, browser, searches, filtered_results,
          matching_target, sent, lines, cls, prev, stage>>

runVars == <<pc, error, alerts, huntAlerts, idx, all_found_items, session,
             browser, searches, filtered_results, matching_target, sent>>

harnessVars == <<lines, cls, prev, stage>>

(***************************************************************************)
(* Bounds of the model.                                                    *)
(***************************************************************************)
MaxTargets == 2     \* longest "alerts" list in config.json
MaxRuns == 2        \* runs of the program in a row
MaxRewrites == 1    \* rewrites of config.json by the environment
MaxLines == 3       \* longest card given to the classifier harness

PriceScale == 100   \* prices are kept in hundredths

(***************************************************************************)
(* Strings.                                                                *)
(***************************************************************************)
Digits == {"0", "1", "2", "3", "4", "5", "6", "7", "8", "9"}

Whitespace == {" ", "\t", "\n"}

DigitVal(c) ==
    CASE c = "0" -> 0 [] c = "1" -> 1 [] c = "2" -> 2 [] c = "3" -> 3
      [] c = "4" -> 4 [] c = "5" -> 5 [] c = "6" -> 6 [] c = "7" -> 7
      [] c = "8" -> 8 [] c = "9" -> 9

\* str.lower() on the letters the model uses
LowerChar(c) ==
    CASE c = "A" -> "a" [] c = "B" -> "b" [] c = "D" -> "d" [] c = "E" -> "e"
      [] c = "R" -> "r" [] c = "S" -> "s" [] c = "U" -> "u" [] OTHER -> c

Lower(s) == [i \in 1..Len(s) |-> LowerChar(s[i])]

RECURSIVE LStrip(_)
LStrip(s) ==
    IF s # <<>> /\ Head(s) \in Whitespace THEN LStrip(Tail(s)) ELSE s

RECURSIVE RStrip(_)
RStrip(s) ==
    IF s # <<>> /\ s[Len(s)] \in Whitespace
    THEN RStrip(SubSeq(s, 1, Len(s) - 1)) ELSE s

\* str.strip()
Strip(s) == RStrip(LStrip(s))

\* sub in s
Contains(s, sub) ==
    \E i \in 1..(Len(s) - Len(sub) + 1) : SubSeq(s, i, i + Len(sub) - 1) = sub

\* s.replace(from, to) for one-character from and to
Replace(s, from, to) == [i \in 1..Len(s) |-> IF s[i] = from THEN to ELSE s[i]]

\* s.split(sep) for a one-character sep
RECURSIVE Split(_, _)
Split(s, sep) ==
    IF \A i \in 1..Len(s) : s[i] # sep
    THEN <<s>>
    ELSE LET k == CHOOSE i \in 1..Len(s) :
                      s[i] = sep /\ \A j \in 1..(i - 1) : s[j] # sep
         IN <<SubSeq(s, 1, k - 1)>> \o Split(SubSeq(s, k + 1, Len(s)), sep)

\* sep.join(parts)
RECURSIVE Join(_, _)
Join(parts, sep) ==
    IF parts = <<>> THEN <<>>
    ELSE IF Len(parts) = 1 THEN parts[1]
    ELSE parts[1] \o sep \o Join(Tail(parts), sep)

HasDigit(s) == \E i \in 1..Len(s) : s[i] \in Digits

\* end of the maximal run of digits of s that starts at position i
RECURSIVE DigitRunEnd(_, _)
DigitRunEnd(s, i) ==
    IF i < Len(s) /\ s[i + 1] \in Digits THEN DigitRunEnd(s, i + 1) ELSE i

\* int(s[i..j]) for a run of digits
RECURSIVE DigitsValue(_, _, _)
DigitsValue(s, i, j) ==
    IF j < i THEN 0 ELSE DigitsValue(s, i, j - 1) * 10 + DigitVal(s[j])

\* the fraction digits s[i..j] in hundredths
FractionValue(s, i, j) ==
    DigitVal(s[i]) * (PriceScale \div 10)
      + (IF j > i THEN DigitVal(s[i + 1]) ELSE 0)

NoPrice == [ok |-> FALSE, val |-> 0]

\* parse_price: None, or the first integer[.fraction] token as a number
parse_price(raw) ==
    LET normalized == Replace(raw, ",", ".")
    IN IF ~HasDigit(normalized) THEN NoPrice
       ELSE LET i == CHOOSE k \in 1..Len(normalized) :
                         /\ normalized[k] \in Digits
                         /\ \A j \in 1..(k - 1) : normalized[j] \notin Digits
                e == DigitRunEnd(normalized, i)
                hasFrac == /\ e + 2 <= Len(normalized)
                           /\ normalized[e + 1] = "."
                           /\ normalized[e + 2] \in Digits
                whole == DigitsValue(normalized, i, e) * PriceScale
            IN [ok |-> TRUE,
                val |-> IF hasFrac
                        THEN whole + FractionValue(normalized, e + 2,
                                         DigitRunEnd(normalized, e + 2))
                        ELSE whole]

(***************************************************************************)
(* The listing text classifier (hunt, lines 185-205).                      *)
(***************************************************************************)
currency_symbols == << <<"$">>, <<"€">>, <<"E", "U", "R">>, <<"U", "S", "D">> >>

has_currency(line) ==
    \E k \in 1..Len(currency_symbols) : Contains(line, currency_symbols[k])

\* a faulty price-line test: the digit rule looks at the first line
IsPriceLineFirst(line, ls) ==
    has_currency(line) \/ (HasDigit(line) /\ line = ls[1])

\* line 195: the test that makes a line the price line
IsPriceLine(line, ls) ==
    has_currency(line) \/ (HasDigit(line) /\ line = ls[Len(ls)])

\* lines = [l.strip() for l in raw.split("\n") if l.strip()]
CardLines(raw) ==
    LET parts == Split(raw, "\n")
        stripped == [i \in 1..Len(parts) |-> Strip(parts[i])]
    IN SelectSeq(stripped, LAMBDA l : l # <<>>)

\* position of the line that ends up in price_line (the last one assigned), or 0
PriceIndex(ls) ==
    LET P == {i \in 1..Len(ls) : IsPriceLine(ls[i], ls)}
    IN IF P = {} THEN 0 ELSE CHOOSE i \in P : \A j \in P : j <= i

NameParts(ls) == SelectSeq(ls, LAMBDA l : ~IsPriceLine(l, ls))

Rejected == [ok |-> FALSE, price_idx |-> 0, price_line |-> <<>>,
             pet_name |-> <<>>, price |-> 0]

\* one pass of the loop body over the lines of a card
ClassifyLines(ls) ==
    IF Len(ls) < 2 THEN Rejected
    ELSE LET p == PriceIndex(ls)
         IN IF p = 0 THEN Rejected
            ELSE LET price == parse_price(ls[p])
                 IN IF ~price.ok
                    THEN [Rejected EXCEPT !.price_idx = p, !.price_line = ls[p]]
                    ELSE [ok |-> TRUE, price_idx |-> p, price_line |-> ls[p],
                          pet_name |-> Join(NameParts(ls), <<" ">>),
                          price |-> price.val]

(***************************************************************************)
(* Dictionaries.  A Python dict keeps its keys in the order of their first *)
(* insertion; it is modelled as a sequence of [key, val] without repeated  *)
(* keys.                                                                   *)
(***************************************************************************)
DictHas(d, k) == \E i \in 1..Len(d) : d[i].key = k

DictIndex(d, k) == CHOOSE i \in 1..Len(d) : d[i].key = k

\* d[k] = v
DictSet(d, k, v) ==
    IF DictHas(d, k)
    THEN [d EXCEPT ![DictIndex(d, k)] = [key |-> k, val |-> v]]
    ELSE Append(d, [key |-> k, val |-> v])

\* d.get(k, default)
DictGet(d, k, default) == IF DictHas(d, k) THEN d[DictIndex(d, k)].val ELSE default

(***************************************************************************)
(* JSON values of a config entry.  pet_name and target_price are each a    *)
(* present value, a null, or missing from the entry.                       *)
(***************************************************************************)
Entry(nk, n, pk, p) ==
    [name_kind |-> nk, pet_name |-> n, price_kind |-> pk, target_price |-> p]

NumVal(p) == [kind |-> "num", val |-> p]
NullVal == [kind |-> "null", val |-> 0]
NotAvailable == [kind |-> "na", val |-> 0]

(***************************************************************************)
(* load_alerts (lines 62-73): the "alerts" list of config.json.            *)
(***************************************************************************)
load_alerts(cfg) == cfg

(***************************************************************************)
(* append_to_csv (lines 76-86).                                            *)
(***************************************************************************)
HeaderRow == [kind |-> "header", timestamp |-> 0, pet_name |-> <<>>, price_eur |-> 0]

DataRow(item) ==
    [kind |-> "data", timestamp |-> item.timestamp, pet_name |-> item.pet_name,
     price_eur |-> item.price_eur]

ItemRows(items) == [i \in 1..Len(items) |-> DataRow(items[i])]

NoFile == [exists |-> FALSE, rows |-> <<>>]

append_to_csv(file, items) ==
    IF items = <<>> THEN file
    ELSE LET file_exists == file.exists /\ Len(file.rows) > 0
         IN [exists |-> TRUE,
             rows |-> file.rows
                        \o (IF file_exists THEN <<>> ELSE <<HeaderRow>>)
                        \o ItemRows(items)]

(***************************************************************************)
(* hunt (lines 90-226).                                                    *)
(***************************************************************************)
\* lines 185-214: the listings of the cards one search returned
RECURSIVE ClassifyAll(_, _)
ClassifyAll(raw_items, ts) ==
    IF raw_items = <<>> THEN <<>>
    ELSE LET c == ClassifyLines(CardLines(Head(raw_items)))
         IN (IF c.ok
             THEN <<[timestamp |-> ts, pet_name |-> c.pet_name,
                     price_eur |-> c.price]>>
             ELSE <<>>) \o ClassifyAll(Tail(raw_items), ts)

\* the exit of the "with sync_playwright()" block without its teardown
WithExitSkipped(s) == s

\* line 102: leaving the "with sync_playwright()" block, on return or on an
\* exception, stops the session; stopping its driver ends the browser it launched
WithExit(s) ==
    [session |-> "closed",
     browser |-> IF s.browser = "launched" THEN "closed" ELSE s.browser]

\* the loop body without the try/except of lines 148 and 221
HuntIterationNoCatch(entry, resp, found, ts) ==
    IF entry.name_kind = "null"
    THEN [status |-> "raise", error |-> "AttributeError", searched |-> FALSE,
          items |-> found]
    ELSE LET pet_name == IF entry.name_kind = "missing" THEN <<>>
                         ELSE Strip(entry.pet_name)
         IN IF pet_name = <<>>
            THEN [status |-> "next", error |-> "none", searched |-> FALSE,
                  items |-> found]
            ELSE IF resp.failed
            THEN [status |-> "raise", error |-> "SearchError", searched |-> TRUE,
                  items |-> found]
            ELSE [status |-> "next", error |-> "none", searched |-> TRUE,
                  items |-> found \o ClassifyAll(resp.raw_items, ts)]

\* lines 139-222: one iteration of the per-target loop, for the entry alert
\* and the page's answer resp to the search (if one is made)
HuntIteration(entry, resp, found, ts) ==
    IF entry.name_kind = "null"
    THEN \* line 140: None.strip(), outside the try
         [status |-> "raise", error |-> "AttributeError", searched |-> FALSE,
          items |-> found]
    ELSE LET pet_name == IF entry.name_kind = "missing" THEN <<>>
                         ELSE Strip(entry.pet_name)
         IN IF pet_name = <<>>
            THEN [status |-> "next", error |-> "none", searched |-> FALSE,
                  items |-> found]
            ELSE IF resp.failed
            THEN \* line 221: except Exception
                 [status |-> "next", error |-> "none", searched |-> TRUE,
                  items |-> found]
            ELSE [status |-> "next", error |-> "none", searched |-> TRUE,
                  items |-> found \o ClassifyAll(resp.raw_items, ts)]

SearchTerm(entry) == Strip(entry.pet_name)

(***************************************************************************)
(* main (lines 230-285): the matcher.                                      *)
(***************************************************************************)
\* line 241: {a['pet_name'].strip(): a['target_price'] for a in alerts
\*            if 'pet_name' in a}
RECURSIVE BuildTargetPets(_, _)
BuildTargetPets(as, d) ==
    IF as = <<>> THEN [error |-> "none", dict |-> d]
    ELSE LET a == Head(as)
         IN IF a.name_kind = "missing" THEN BuildTargetPets(Tail(as), d)
            ELSE IF a.name_kind = "null"
            THEN [error |-> "AttributeError", dict |-> d]
            ELSE IF a.price_kind = "missing"
            THEN [error |-> "KeyError", dict |-> d]
            ELSE BuildTargetPets(Tail(as),
                     DictSet(d, Strip(a.pet_name),
                             IF a.price_kind = "null" THEN NullVal
                             ELSE NumVal(a.target_price)))

target_pets(as) == BuildTargetPets(as, <<>>)

NoTarget == [found |-> FALSE, name |-> <<>>]

\* lines 251-259: matching_target for an observed name
MatchingTarget(tp, name) ==
    IF DictHas(tp, name) THEN [found |-> TRUE, name |-> name]
    ELSE LET F == {i \in 1..Len(tp) : Contains(Lower(name), Lower(tp[i].key))}
         IN IF F = {} THEN NoTarget
            ELSE [found |-> TRUE,
                  name |-> tp[CHOOSE i \in F : \A j \in F : i <= j].key]

\* "if matching_target:" is false for None and for the empty string
Truthy(mt) == mt.found /\ mt.name # <<>>

\* lines 245-266: the loop over the items
RECURSIVE FilterItems(_, _, _, _)
FilterItems(items, tp, filtered, last) ==
    IF items = <<>>
    THEN [error |-> "none", filtered |-> filtered, matching_target |-> last]
    ELSE LET item == Head(items)
             name == item.pet_name
             price == item.price_eur
             mt == MatchingTarget(tp, name)
         IN IF ~Truthy(mt) THEN FilterItems(Tail(items), tp, filtered, mt)
            ELSE LET max_allowed == DictGet(tp, mt.name, NullVal)
                 IN IF max_allowed.kind # "num"
                    THEN [error |-> "TypeError", filtered |-> filtered,
                          matching_target |-> mt]
                    ELSE IF /\ price <= max_allowed.val
                            /\ \/ ~DictHas(filtered, name)
                               \/ price < DictGet(filtered, name, item).price_eur
                    THEN FilterItems(Tail(items), tp,
                                     DictSet(filtered, name, item), mt)
                    ELSE FilterItems(Tail(items), tp, filtered, mt)

\* line 273: the max_price a message shows
ShownTarget(tp, pet_name, last) ==
    DictGet(tp, pet_name,
            IF last.found THEN DictGet(tp, last.name, NotAvailable)
            ELSE NotAvailable)

\* lines 271-275: one message per entry of filtered_results, in its order
AlertMessages(filtered, tp, last) ==
    [i \in 1..Len(filtered) |->
        [observed_name |-> filtered[i].key,
         price |-> filtered[i].val.price_eur,
         shown_max |-> ShownTarget(tp, filtered[i].key, last)]]

\* lines 238-283: everything main does with the items hunt returned
MatchAndLog(as, items, file) ==
    IF items = <<>>
    THEN [error |-> "none", filtered |-> <<>>, matching_target |-> NoTarget,
          sent |-> <<>>, csv |-> file]
    ELSE LET tp == target_pets(as)
         IN IF tp.error # "none"
            THEN [error |-> tp.error, filtered |-> <<>>,
                  matching_target |-> NoTarget, sent |-> <<>>, csv |-> file]
            ELSE LET f == FilterItems(items, tp.dict, <<>>, NoTarget)
                 IN IF f.error # "none"
                    THEN [error |-> f.error, filtered |-> f.filtered,
                          matching_target |-> f.matching_target,
                          sent |-> <<>>, csv |-> file]
                    ELSE [error |-> "none", filtered |-> f.filtered,
                          matching_target |-> f.matching_target,
                          sent |-> AlertMessages(f.filtered, tp.dict,
                                                 f.matching_target),
                          csv |-> append_to_csv(file, items)]

(***************************************************************************)
(* The inputs the model draws: config entries, and what the page returns   *)
(* to a search.                                                            *)
(***************************************************************************)
EntryPool ==
    { Entry("str", <<" ", "a">>, "num", 500),
      Entry("str", <<"b">>, "num", 200),
      Entry("str", <<"b">>, "num", 500),
      Entry("str", <<" ">>, "num", 500),
      Entry("missing", <<>>, "num", 500),
      Entry("str", <<"b">>, "missing", 0),
      Entry("null", <<>>, "num", 300),
      Entry("str", <<"a">>, "null", 0) }

SeqsUpTo(S, n) == UNION {[1..k -> S] : k \in 0..n}

Configs == SeqsUpTo(EntryPool, MaxTargets)

CardA2 == <<"a", "\n", "€", "2">>
CardA4 == <<"a", "\n", "€", "4">>
CardAB3 == <<"a", "\n", "b", "\n", "3">>
CardB15 == <<"B", " ", "\n", " ", "1", ",", "5", " ", "€">>
CardOneLine == <<"b">>

SearchFailed == [failed |-> TRUE, raw_items |-> <<>>]
Found(raw_items) == [failed |-> FALSE, raw_items |-> raw_items]

Responses ==
    { SearchFailed,
      Found(<<>>),
      Found(<<CardA2>>),
      Found(<<CardA4, CardA2>>),
      Found(<<CardA2, CardA4>>),
      Found(<<CardAB3>>),
      Found(<<CardB15, CardOneLine>>) }

LinePool ==
    { <<"a">>, <<"b", " ", "2">>, <<"€", "5">>, <<"3">>, <<"U", "S", "D">> }

Cards == UNION {[1..k -> LinePool] : k \in 2..MaxLines}

NoClass == [lines |-> <<>>, cls |-> Rejected]

(***************************************************************************)
(* Initial states.                                                         *)
(***************************************************************************)
RunStart ==
    /\ pc = "start"
    /\ error = "none"
    /\ alerts = <<>>
    /\ huntAlerts = <<>>
    /\ idx = 0
    /\ all_found_items = <<>>
    /\ session = "none"
    /\ browser = "none"
    /\ searches = <<>>
    /\ filtered_results = <<>>
    /\ matching_target = NoTarget
    /\ sent = <<>>

HarnessIdle ==
    /\ lines = <<>>
    /\ cls = Rejected
    /\ prev = NoClass
    /\ stage = "idle"

\* a first run of the program, with no history file yet
Init ==
    /\ config \in Configs
    /\ csv = NoFile
    /\ run = 1
    /\ rewrites = 0
    /\ RunStart
    /\ HarnessIdle

\* the classifier alone, on a card of at least two lines
InitClassify ==
    /\ config = <<>>
    /\ csv = NoFile
    /\ run = 1
    /\ rewrites = 0
    /\ RunStart
    /\ lines \in Cards
    /\ cls = Rejected
    /\ prev = NoClass
    /\ stage = "input"

(***************************************************************************)
(* The steps of a run.                                                     *)
(***************************************************************************)
\* main, line 235
MainLoad ==
    /\ pc = "start"
    /\ alerts' = load_alerts(config)
    /\ pc' = "hunt"
    /\ UNCHANGED <<config, csv, run, rewrites, error, huntAlerts, idx,
                   all_found_items, session, browser, searches,
                   filtered_results, matching_target, sent>>
    /\ UNCHANGED harnessVars

\* hunt, lines 92-100
HuntLoad ==
    /\ pc = "hunt"
    /\ huntAlerts' = load_alerts(config)
    /\ all_found_items' = <<>>
    /\ pc' = IF load_alerts(config) = <<>> THEN "match" ELSE "open"
    /\ UNCHANGED <<config, csv, run, rewrites, error, alerts, idx, session,
                   browser, searches, filtered_results, matching_target, sent>>
    /\ UNCHANGED harnessVars

\* hunt, lines 102-137.  The name true of line 103 is bound nowhere in the
\* file: where nothing else binds it the launch raises NameError before a
\* browser exists.  page.goto may raise an error that is no timeout.  Both
\* leave hunt through the with block.
OpenSession ==
    /\ pc = "open"
    /\ \E outcome \in {"ok", "NameError", "NavError"} :
          LET opened == [session |-> "open",
                         browser |-> IF outcome = "NameError" THEN "none"
                                     ELSE "launched"]
              left == IF outcome = "ok" THEN opened ELSE WithExit(opened)
          IN /\ session' = left.session
             /\ browser' = left.browser
             /\ error' = IF outcome = "ok" THEN "none" ELSE outcome
             /\ pc' = IF outcome = "ok" THEN "loop" ELSE "aborted"
    /\ idx' = 1
    /\ UNCHANGED <<config, csv, run, rewrites, alerts, huntAlerts,
                   all_found_items, searches, filtered_results,
                   matching_target, sent>>
    /\ UNCHANGED harnessVars

\* hunt, lines 139-222: one iteration of the loop
HuntTarget ==
    /\ pc = "loop"
    /\ idx <= Len(huntAlerts)
    /\ \E resp \in Responses :
          LET entry == huntAlerts[idx]
              r == HuntIteration(entry, resp, all_found_items, run)
              left == WithExit([session |-> session, browser |-> browser])
          IN /\ all_found_items' = r.items
             /\ searches' = IF r.searched
                            THEN Append(searches,
                                        [term |-> SearchTerm(entry),
                                         failed |-> resp.failed,
                                         raw_items |-> resp.raw_items])
                            ELSE searches
             /\ IF r.status = "next"
                THEN /\ idx' = idx + 1
                     /\ UNCHANGED <<pc, error, session, browser>>
                ELSE /\ pc' = "aborted"
                     /\ error' = r.error
                     /\ session' = left.session
                     /\ browser' = left.browser
                     /\ UNCHANGED idx
    /\ UNCHANGED <<config, csv, run, rewrites, alerts, huntAlerts,
                   filtered_results, matching_target, sent>>
    /\ UNCHANGED harnessVars

\* hunt, lines 224-226: browser.close(), the end of the with block, return
HuntReturn ==
    /\ pc = "loop"
    /\ idx > Len(huntAlerts)
    /\ LET left == WithExit([session |-> session, browser |-> "closed"])
       IN /\ session' = left.session
          /\ browser' = left.browser
    /\ pc' = "match"
    /\ UNCHANGED <<config, csv, run, rewrites, error, alerts, huntAlerts, idx,
                   all_found_items, searches, filtered_results,
                   matching_target, sent>>
    /\ UNCHANGED harnessVars

\* main, lines 238-285
Match ==
    /\ pc = "match"
    /\ LET r == MatchAndLog(alerts, all_found_items, csv)
       IN /\ error' = r.error
          /\ filtered_results' = r.filtered
          /\ matching_target' = r.matching_target
          /\ sent' = r.sent
          /\ csv' = r.csv
          /\ pc' = IF r.error = "none" THEN "done" ELSE "aborted"
    /\ UNCHANGED <<config, run, rewrites, alerts, huntAlerts, idx,
                   all_found_items, session, browser, searches>>
    /\ UNCHANGED harnessVars

\* the scheduler starts the program again: a new process, the same files
NextRun ==
    /\ pc \in {"done", "aborted"}
    /\ run < MaxRuns
    /\ run' = run + 1
    /\ pc' = "start"
    /\ error' = "none"
    /\ alerts' = <<>>
    /\ huntAlerts' = <<>>
    /\ idx' = 0
    /\ all_found_items' = <<>>
    /\ session' = "none"
    /\ browser' = "none"
    /\ searches' = <<>>
    /\ filtered_results' = <<>>
    /\ matching_target' = NoTarget
    /\ sent' = <<>>
    /\ UNCHANGED <<config, csv, rewrites>>
    /\ UNCHANGED harnessVars

\* what the save button of src/analyze.py writes: entries with a non-empty
\* pet_name string and a numeric target_price
Savable(c) ==
    \A i \in 1..Len(c) : /\ c[i].name_kind = "str"
                         /\ c[i].pet_name # <<>>
                         /\ c[i].price_kind = "num"

\* the environment rewrites config.json (the target manager saves a new
\* list) before the run has read it for the second time
ConfigRewrite ==
    /\ pc \in {"start", "hunt"}
    /\ rewrites < MaxRewrites
    /\ \E c \in Configs : Savable(c) /\ c # config /\ config' = c
    /\ rewrites' = rewrites + 1
    /\ UNCHANGED <<csv, run>>
    /\ UNCHANGED runVars
    /\ UNCHANGED harnessVars

(***************************************************************************)
(* The classifier harness: classify a card, reorder its name lines,        *)
(* classify again.                                                         *)
(***************************************************************************)
ClassifyCard ==
    /\ stage \in {"input", "reordered"}
    /\ cls' = ClassifyLines(lines)
    /\ stage' = IF stage = "input" THEN "classified" ELSE "reclassified"
    /\ UNCHANGED <<lines, prev>>
    /\ UNCHANGED <<config, csv, run, rewrites>>
    /\ UNCHANGED runVars

NamePositions(ls) == {i \in 1..Len(ls) : ~IsPriceLine(ls[i], ls)}

\* the lines that were classified as name lines change places; the others stay
ReorderNameLines ==
    /\ stage = "classified"
    /\ LET N == NamePositions(lines)
       IN \E p \in [N -> N] :
             /\ \A i, j \in N : p[i] = p[j] => i = j
             /\ \E i \in N : p[i] # i
             /\ lines' = [i \in 1..Len(lines) |->
                             IF i \in N THEN lines[p[i]] ELSE lines[i]]
    /\ prev' = [lines |-> lines, cls |-> cls]
    /\ stage' = "reordered"
    /\ UNCHANGED cls
    /\ UNCHANGED <<config, csv, run, rewrites>>
    /\ UNCHANGED runVars

(***************************************************************************)
(* Specifications.                                                         *)
(***************************************************************************)
Next ==
    \/ MainLoad
    \/ HuntLoad
    \/ OpenSession
    \/ HuntTarget
    \/ HuntReturn
    \/ Match

\* one run of the program
Spec == Init /\ [][Next]_vars

NextRuns == Next \/ NextRun

\* several runs in a row
SpecRuns == Init /\ [][NextRuns]_vars

NextEnv == Next \/ ConfigRewrite

\* one run, with config.json rewritten under it
SpecEnv == Init /\ [][NextEnv]_vars

NextClassify == ClassifyCard \/ ReorderNameLines

\* the classifier on its own
SpecClassify == InitClassify /\ [][NextClassify]_vars

(***************************************************************************)
(* Notions the properties use.                                             *)
(***************************************************************************)
Min(S) == CHOOSE x \in S : \A y \in S : x <= y

\* the Targets of a config: the entries with a name that is not empty after
\* trimming and a numeric price, in configured order
Targets(as) ==
    LET good == SelectSeq(as, LAMBDA e : /\ e.name_kind = "str"
                                         /\ e.price_kind = "num"
                                         /\ Strip(e.pet_name) # <<>>)
    IN [i \in 1..Len(good) |->
           [name |-> Strip(good[i].pet_name), max_price |-> good[i].target_price]]

\* the Target a name matches: exactly, else the first one in configured order
\* whose name is a case-insensitive substring; 0 if there is none
TargetOf(ts, name) ==
    LET X == {t \in 1..Len(ts) : ts[t].name = name}
        F == {t \in 1..Len(ts) : Contains(Lower(name), Lower(ts[t].name))}
    IN IF X # {} THEN Min(X) ELSE IF F # {} THEN Min(F) ELSE 0

\* the Targets as the name -> max_price mapping: one entry per name, in the
\* place of the name's first Target and with the price of its last
TargetMapping(as) ==
    LET ts == Targets(as)
        idxd == [i \in 1..Len(ts) |-> [i |-> i, name |-> ts[i].name]]
        firsts == SelectSeq(idxd, LAMBDA r :
                      \A j \in 1..(r.i - 1) : ts[j].name # r.name)
    IN [k \in 1..Len(firsts) |->
           [name |-> firsts[k].name,
            max_price |->
                ts[CHOOSE j \in 1..Len(ts) :
                       /\ ts[j].name = firsts[k].name
                       /\ \A l \in (j + 1)..Len(ts) : ts[l].name # firsts[k].name
                  ].max_price]]

Qualifies(ts, item) ==
    /\ TargetOf(ts, item.pet_name) # 0
    /\ item.price_eur <= ts[TargetOf(ts, item.pet_name)].max_price

\* the search terms typed, in order
Terms(ss) == [i \in 1..Len(ss) |-> ss[i].term]

\* the names hunt searches for a list of entries
SearchableNames(as) ==
    LET named == SelectSeq(as, LAMBDA e : /\ e.name_kind = "str"
                                          /\ Strip(e.pet_name) # <<>>)
    IN [i \in 1..Len(named) |-> Strip(named[i].pet_name)]

\* the listings of the searches that did not fail, in search order
RECURSIVE ExpectedItems(_, _)
ExpectedItems(ss, ts) ==
    IF ss = <<>> THEN <<>>
    ELSE (IF Head(ss).failed THEN <<>> ELSE ClassifyAll(Head(ss).raw_items, ts))
           \o ExpectedItems(Tail(ss), ts)

WellFormed(as) ==
    SelectSeq(as, LAMBDA e : e.name_kind = "str" /\ e.price_kind = "num")

NonEmptyNamed(as) ==
    SelectSeq(as, LAMBDA e : ~(e.name_kind = "str" /\ Strip(e.pet_name) = <<>>))

DataRows(file) == SelectSeq(file.rows, LAMBDA r : r.kind = "data")

HeaderOnce(file) ==
    file.exists =>
        /\ file.rows # <<>>
        /\ file.rows[1] = HeaderRow
        /\ \A i \in 2..Len(file.rows) : file.rows[i].kind = "data"

HuntLeft == pc \in {"match", "done", "aborted"}

(***************************************************************************)
(* C1.  When the matcher has run, the Alert set has exactly one Alert for  *)
(* each observed name with at least one qualifying Listing (matched to a   *)
(* Target of the name -> max_price mapping, price <= its max_price), none  *)
(* for any other name, and the Alert's price is the minimum over the       *)
(* qualifying Listings of that name.                                       *)
(***************************************************************************)
C1_OneAlertPerQualifyingName ==
    (pc = "done" /\ all_found_items # <<>>) =>
        LET ts == TargetMapping(alerts)
            items == all_found_items
        IN /\ \A i, j \in 1..Len(filtered_results) :
                 filtered_results[i].key = filtered_results[j].key => i = j
           /\ \A i \in 1..Len(filtered_results) :
                 \E k \in 1..Len(items) : items[k].pet_name = filtered_results[i].key
           /\ \A k \in 1..Len(items) :
                 LET name == items[k].pet_name
                     Q == {j \in 1..Len(items) : /\ items[j].pet_name = name
                                                 /\ Qualifies(ts, items[j])}
                 IN /\ DictHas(filtered_results, name) <=> Q # {}
                    /\ (DictHas(filtered_results, name) /\ Q # {}) =>
                          DictGet(filtered_results, name, items[k]).price_eur
                            = Min({items[j].price_eur : j \in Q})

(***************************************************************************)
(* C2.  A search that fails does not end the loop and costs no Listing of  *)
(* another target: the Listings collected are those of the searches that   *)
(* did not fail, in order, every target up to the loop position has been   *)
(* searched, and a failed search never ends the run.                       *)
(***************************************************************************)
C2_Isolation ==
    /\ all_found_items = ExpectedItems(searches, run)
    /\ pc = "loop" =>
          Terms(searches) = SearchableNames(SubSeq(huntAlerts, 1, idx - 1))
    /\ pc \in {"match", "done"} => Terms(searches) = SearchableNames(huntAlerts)
    /\ error # "SearchError"

\* hunt returned after a failed search followed by a search that gave Listings
C2_Witness ==
    /\ pc = "match"
    /\ \E i, j \in 1..Len(searches) :
          /\ i < j
          /\ searches[i].failed
          /\ ~searches[j].failed
          /\ ClassifyAll(searches[j].raw_items, run) # <<>>
          /\ all_found_items = ClassifyAll(searches[j].raw_items, run)

(***************************************************************************)
(* C3.  Once hunt is left, by return or by an exception, a session that    *)
(* was opened is closed and no browser of it is left running.              *)
(***************************************************************************)
C3_SessionClosed ==
    (HuntLeft /\ session # "none") => (session = "closed" /\ browser # "launched")

\* the loop was left by the AttributeError of line 140, after a first iteration
C3_Witness ==
    /\ pc = "aborted"
    /\ error = "AttributeError"
    /\ idx > 1
    /\ idx <= Len(huntAlerts)
    /\ session = "closed"
    /\ browser = "closed"

(***************************************************************************)
(* C4.  The run that follows a hunt leaves the store with the rows it had, *)
(* then one row per Listing of the hunt, in order, under a single header.  *)
(***************************************************************************)
C4_AppendsEveryListing ==
    [][pc = "match" =>
          /\ DataRows(csv') = DataRows(csv) \o ItemRows(all_found_items)
          /\ HeaderOnce(csv')]_vars

(***************************************************************************)
(* C5.  The max_price a message shows is the max_price of the Target its   *)
(* observed name was matched to.                                           *)
(***************************************************************************)
C5_ShownMaxIsMatchedTargets ==
    pc = "done" =>
        LET tp == target_pets(alerts).dict
        IN \A i \in 1..Len(sent) :
              sent[i].shown_max
                = DictGet(tp, MatchingTarget(tp, sent[i].observed_name).name,
                          NotAvailable)

(***************************************************************************)
(* C6.  An entry that lacks pet_name or target_price, or has a null there, *)
(* is skipped: the run does not end with an error from it, and searches    *)
(* and alerts are those of the well-formed entries alone.                  *)
(***************************************************************************)
C6_MalformedSkipped ==
    /\ error \notin {"AttributeError", "KeyError", "TypeError"}
    /\ pc \in {"match", "done"} =>
          Terms(searches) = SearchableNames(WellFormed(huntAlerts))
    /\ pc = "done" =>
          sent = MatchAndLog(WellFormed(alerts), all_found_items, NoFile).sent

(***************************************************************************)
(* C7.  Entries whose name is empty after trimming change nothing: the     *)
(* searches and the alerts are those of the list without them.             *)
(***************************************************************************)
C7_EmptyNamesIgnored ==
    /\ pc \in {"match", "done"} =>
          Terms(searches) = SearchableNames(NonEmptyNamed(huntAlerts))
    /\ pc = "done" =>
          LET r == MatchAndLog(NonEmptyNamed(alerts), all_found_items, NoFile)
          IN filtered_results = r.filtered /\ sent = r.sent

(***************************************************************************)
(* C8.  A Listing whose name is no Target's name is matched to the first   *)
(* Target in configured order whose name is a case-insensitive substring   *)
(* of it and has an Alert iff a Listing of that name is priced at or below *)
(* that Target's max_price; without such a Target it has no Alert.         *)
(***************************************************************************)
C8_FirstSubstringTarget ==
    (pc = "done" /\ all_found_items # <<>>) =>
        LET ts == Targets(alerts)
            items == all_found_items
        IN \A k \in 1..Len(items) :
              LET name == items[k].pet_name
                  F == {t \in 1..Len(ts) : Contains(Lower(name), Lower(ts[t].name))}
              IN (\A t \in 1..Len(ts) : ts[t].name # name) =>
                    (DictHas(filtered_results, name) <=>
                        /\ F # {}
                        /\ \E j \in 1..Len(items) :
                              /\ items[j].pet_name = name
                              /\ items[j].price_eur <= ts[Min(F)].max_price)

(***************************************************************************)
(* C9.  Reordering the lines that were classified as name lines changes    *)
(* neither the line chosen as price line nor the price.                    *)
(***************************************************************************)
SamePriceLine ==
    /\ cls.ok = prev.cls.ok
    /\ cls.price_idx = prev.cls.price_idx
    /\ cls.price_line = prev.cls.price_line
    /\ cls.price = prev.cls.price

C9_ReorderKeepsPriceLine == stage = "reclassified" => SamePriceLine

\* the reorder has put a name line that contains a digit last
DigitNameLineMovedLast ==
    /\ Len(lines) \in NamePositions(prev.lines)
    /\ HasDigit(lines[Len(lines)])

\* C9, amended: reordering the name lines changes neither the price line nor
\* the price, unless it puts a name line that contains a digit in the card's
\* last place
C9_ReorderKeepsPriceLineUnlessDigitLast ==
    (stage = "reclassified" /\ ~DigitNameLineMovedLast) => SamePriceLine

\* a card with a price and two name lines, reordered and classified again
C9_Witness ==
    /\ stage = "reclassified"
    /\ ~DigitNameLineMovedLast
    /\ lines # prev.lines
    /\ Cardinality(NamePositions(prev.lines)) >= 2
    /\ prev.cls.ok
    /\ cls.ok

(***************************************************************************)
(* C10.  The Target list hunt searches is the one the matcher uses.        *)
(***************************************************************************)
C10_OneTargetList ==
    pc \in {"open", "loop", "match", "done", "aborted"} => alerts = huntAlerts

====
